---- MODULE Spec2Model ----
(***************************************************************************)
(* Model of src/Experiment.py: the constrained game explorer (CGE), its    *)
(* round loop run_exploration_experiment and the __main__ trial loop.      *)
(*                                                                         *)
(* Numbers are exact rationals <<num, den>> (den > 0, lowest terms).       *)
(* Results of the scipy solvers (linprog's status, minimize's point) and   *)
(* of floating-point expressions in log/sqrt are inputs of the round,      *)
(* drawn from small sets; everything the repository computes itself with   *)
(* +, -, *, / and comparisons is computed.                                 *)
(***************************************************************************)
EXTENDS Integers, Sequences, FiniteSets, TLC

(***************************************************************************)
(* Rational arithmetic                                                     *)
(***************************************************************************)
Abs(i) == IF i < 0 THEN -i ELSE i

RECURSIVE GCD(_, _)
GCD(a, b) == IF b = 0 THEN a ELSE GCD(b, a % b)

Rat(n, d) ==
    LET g == GCD(Abs(n), Abs(d))
        s == IF d < 0 THEN -1 ELSE 1
    IN  <<(s * n) \div g, (s * d) \div g>>

R(i) == <<i, 1>>
\* Sums and products cancel common factors before they multiply, which keeps
\* the intermediate integers small.
RAdd(x, y) ==
    LET g == GCD(x[2], y[2])
    IN  Rat(x[1] * (y[2] \div g) + y[1] * (x[2] \div g), (x[2] \div g) * y[2])
RNeg(x) == <<-x[1], x[2]>>
RSub(x, y) == RAdd(x, RNeg(y))
RMul(x, y) ==
    LET g == GCD(Abs(x[1]), y[2])
        h == GCD(Abs(y[1]), x[2])
    IN  IF x[1] = 0 \/ y[1] = 0 THEN <<0, 1>>
        ELSE <<(x[1] \div g) * (y[1] \div h), (x[2] \div h) * (y[2] \div g)>>
RDiv(x, y) == RMul(x, IF y[1] < 0 THEN <<-y[2], -y[1]>> ELSE <<y[2], y[1]>>)
RAbs(x) == <<Abs(x[1]), x[2]>>

\* a/b <= c/d for a, c >= 0 and b, d > 0, by Euclid's algorithm (no products,
\* so that the comparison with 1e-5 and 1e-8 stays inside the integers).
RECURSIVE FracLeq(_, _, _, _)
FracLeq(a, b, c, d) ==
    IF a \div b /= c \div d THEN a \div b < c \div d
    ELSE IF a % b = 0 THEN TRUE
    ELSE IF c % d = 0 THEN FALSE
    ELSE FracLeq(d, c % d, b, a % b)

RLeq(x, y) ==
    IF x[1] <= 0 /\ y[1] >= 0 THEN TRUE
    ELSE IF x[1] > 0 /\ y[1] <= 0 THEN FALSE
    ELSE IF x[1] > 0 THEN FracLeq(x[1], x[2], y[1], y[2])
    ELSE FracLeq(-y[1], y[2], -x[1], x[2])
RLt(x, y) == ~RLeq(y, x)

(***************************************************************************)
(* Vectors and matrices (sequences of rationals, sequences of rows)        *)
(***************************************************************************)
RECURSIVE RSum(_)
RSum(v) == IF v = <<>> THEN R(0) ELSE RAdd(Head(v), RSum(Tail(v)))

Dot(u, v) == RSum([i \in 1..Len(u) |-> RMul(u[i], v[i])])
MatVec(M, v) == [i \in 1..Len(M) |-> Dot(M[i], v)]
VecSub(u, v) == [i \in 1..Len(u) |-> RSub(u[i], v[i])]
Column(M, j) == [i \in 1..Len(M) |-> M[i][j]]
Zeros(n) == [i \in 1..n |-> R(0)]
Ones(n) == [i \in 1..n |-> R(1)]
Eye(n) == [i \in 1..n |-> [j \in 1..n |-> IF i = j THEN R(1) ELSE R(0)]]
NegM(M) == [i \in 1..Len(M) |-> [j \in 1..Len(M[i]) |-> RNeg(M[i][j])]]

DropAt(s, j) == [i \in 1..(Len(s) - 1) |-> IF i < j THEN s[i] ELSE s[i + 1]]

\* Determinant by expansion along the first row.
RECURSIVE Det(_)
Det(M) ==
    IF Len(M) = 1 THEN M[1][1]
    ELSE RSum([j \in 1..Len(M) |->
            RMul(IF j % 2 = 1 THEN M[1][j] ELSE RNeg(M[1][j]),
                 Det([i \in 1..(Len(M) - 1) |-> DropAt(M[i + 1], j)]))])

\* np.linalg.matrix_rank(B) == n for a square B, in exact arithmetic.
FullRank(B) == Det(B) /= R(0)

\* np.linalg.solve(B, c) for a full-rank square B (Cramer's rule).
LinSolve(B, c) ==
    LET d == Det(B)
    IN  [j \in 1..Len(B) |->
            RDiv(Det([i \in 1..Len(B) |->
                        [k \in 1..Len(B) |-> IF k = j THEN c[i] ELSE B[i][k]]]),
                 d)]

\* itertools.combinations(s, k): the k-subsequences of s in lexicographic order.
RECURSIVE Combinations(_, _)
Combinations(s, k) ==
    IF k = 0 THEN << <<>> >>
    ELSE IF Len(s) < k THEN <<>>
    ELSE LET with == Combinations(Tail(s), k - 1)
             without == Combinations(Tail(s), k)
         IN  [i \in 1..Len(with) |-> <<Head(s)>> \o with[i]] \o without

RECURSIVE SelectIdx(_, _, _)
\* The indices i of 1..n with P[i], in increasing order.
SelectIdx(P, i, n) ==
    IF i > n THEN <<>>
    ELSE (IF P[i] THEN <<i>> ELSE <<>>) \o SelectIdx(P, i + 1, n)

(***************************************************************************)
(* A problem instance in the shape of __main__'s (lines 1111-1113), with   *)
(* two arms and one constraint: the means, the true constraint matrix and  *)
(* the constraint vector.                                                  *)
(***************************************************************************)
mu == << <<3, 2>>, <<1, 1>> >>
A == << << <<1, 1>>, <<0, 1>> >> >>
b == << <<1, 2>> >>
n_arms == Len(mu)

(***************************************************************************)
(* get_policy: the stacked system and the LP over it                       *)
(***************************************************************************)
\* A_ub and b_ub as get_policy stacks them: A, -eye, simplex, -simplex.
StackA(Ac) == Ac \o NegM(Eye(n_arms)) \o <<Ones(n_arms)>> \o <<[i \in 1..n_arms |-> R(-1)]>>
StackB(bc) == bc \o Zeros(n_arms) \o <<R(1)>> \o <<R(-1)>>

\* The basic feasible solutions of As x <= bs.
Vertices(As, bs) ==
    LET bases == Combinations([i \in 1..Len(As) |-> i], n_arms)
        B(k) == [i \in 1..n_arms |-> As[bases[k][i]]]
        sols == {LinSolve(B(k), [i \in 1..n_arms |-> bs[bases[k][i]]]) :
                    k \in {j \in 1..Len(bases) : FullRank(B(j))}}
    IN  {v \in sols : \A r \in 1..Len(As) : RLeq(Dot(As[r], v), bs[r])}

\* What linprog(-mu, A_ub, b_ub) can return when it does not raise: an optimal
\* vertex with success, or a result without success and without a point (always
\* possible: the simplex method may fail to converge; certain when infeasible).
\* Python's None (no vector, no record, no tuple).
None == <<>>
LinprogResults(m, As, bs) ==
    LET V == Vertices(As, bs)
    IN  {[success |-> TRUE, x |-> v, slack |-> VecSub(bs, MatVec(As, v))] :
            v \in {u \in V : \A o \in V : RLeq(Dot(m, o), Dot(m, u))}}
        \cup {[success |-> FALSE, x |-> None, slack |-> None]}

\* get_policy(mu, A, b) when linprog returns `results`: (results, aux).
get_policy(results, Ac, bc) ==
    [results |-> results,
     aux |-> [A |-> StackA(Ac), b |-> StackB(bc), slack |-> results.slack]]

(***************************************************************************)
(* compute_neighbors and arreqclose_in_list                                *)
(***************************************************************************)
FeasTol == <<1, 100000>>
AtolInvSqrt == 10000
RtolOverAtol == 1000

\* np.allclose(elem, myarr): |elem - myarr| <= 1e-8 + 1e-5 * |myarr|, entrywise.
AllClose(elem, myarr) ==
    \A i \in 1..Len(elem) :
        LET d == RAbs(RSub(elem[i], myarr[i]))
            m == RAbs(myarr[i])
        IN  FracLeq(d[1] * AtolInvSqrt, d[2],
                    m[2] + RtolOverAtol * m[1], AtolInvSqrt * m[2])

\* arreqclose_in_list finding nothing: C13_Neighbors tells the two apart.
arreqclose_never(myarr, list_arrays) == FALSE

arreqclose_in_list(myarr, list_arrays) ==
    \E k \in 1..Len(list_arrays) :
        Len(list_arrays[k]) = Len(myarr) /\ AllClose(list_arrays[k], myarr)

\* The candidate bases of compute_neighbors in the order of its three loops:
\* base, inactive constraint, position swapped.
NeighborBases(active, inactive, n) ==
    LET bases == Combinations(active, n)
        nb == Len(bases)
        ni == Len(inactive)
    IN  [k \in 1..(nb * ni * n) |->
            LET bi == ((k - 1) \div (ni * n)) + 1
                ci == (((k - 1) \div n) % ni) + 1
                pi == ((k - 1) % n) + 1
            IN  [j \in 1..n |-> IF j = pi THEN inactive[ci] ELSE bases[bi][j]]]

RECURSIVE NeighborScan(_, _, _, _, _)
NeighborScan(cands, k, As, bs, neighbors) ==
    IF k > Len(cands) THEN neighbors
    ELSE LET B == [i \in 1..Len(cands[k]) |-> As[cands[k][i]]]
             c == [i \in 1..Len(cands[k]) |-> bs[cands[k][i]]]
             possible_neighbor == LinSolve(B, c)
             keep == /\ FullRank(B)
                     /\ \A r \in 1..Len(As) :
                            RLeq(RSub(Dot(As[r], possible_neighbor), bs[r]), FeasTol)
                     /\ ~arreqclose_in_list(possible_neighbor, neighbors)
         IN  NeighborScan(cands, k + 1, As, bs,
                          IF keep THEN Append(neighbors, possible_neighbor)
                          ELSE neighbors)

compute_neighbors(vertex, As, bs, slack) ==
    LET m == Len(As)
        active_constaints == SelectIdx([i \in 1..m |-> slack[i] = R(0)], 1, m)
        inactive_constraints == SelectIdx([i \in 1..m |-> slack[i] /= R(0)], 1, m)
    IN  NeighborScan(NeighborBases(active_constaints, inactive_constraints, Len(vertex)),
                     1, As, bs, <<>>)

(***************************************************************************)
(* Random streams.  A stream is a position in a fixed table of draws; a    *)
(* seeded RandomState starts at the position its seed fixes, the           *)
(* process-wide np.random (never seeded by __main__) starts anywhere.      *)
(***************************************************************************)
NoiseTable == <<-1, 1, 0, 1, -1>>
Positions == 0..(Len(NoiseTable) - 1)
seed == 1000
RandomState(sd) == sd % Len(NoiseTable)
\* normal(loc, 1) for a vector loc: one draw per entry, the stream advances.
Normal(loc, pos) ==
    [value |-> [i \in 1..Len(loc) |->
                    RAdd(loc[i], R(NoiseTable[((pos + i - 1) % Len(NoiseTable)) + 1]))],
     pos |-> (pos + Len(loc)) % Len(NoiseTable)]

\* GaussianBandit.sample_mean: drawn from the bandit's own random_state.
sample_mean(rs) == Normal(mu, rs)

RECURSIVE Flatten(_)
Flatten(M) == IF M = <<>> THEN <<>> ELSE Head(M) \o Flatten(Tail(M))
Reshape(v, rows, cols) == [i \in 1..rows |-> [j \in 1..cols |-> v[(i - 1) * cols + j]]]
\* GaussianBandit.sample_constraint: drawn from the process-wide np.random.
sample_constraint(Am, glob) ==
    LET d == Normal(Flatten(Am), glob)
    IN  [value |-> Reshape(d.value, Len(Am), Len(Am[1])), pos |-> d.pos]

(***************************************************************************)
(* Bounds of the model                                                     *)
(***************************************************************************)
\* The warm-up lengths passed to the constructor are 1 and MaxIniPhase.
MaxIniPhase == 11
\* The round loop's cap (100000 in the source) is scaled down to this many
\* rounds past the warm-up.
MaxAdaptive == 2
\* The trials of __main__ (30 in the source).
MaxIter == 2

BernoulliIniPhase == 10
Lower == <<1, 10000>>
Upper == <<9999, 10000>>

Configs ==
    [ini_phase : {1, MaxIniPhase},
     dist_type : {"Gaussian", "Bernoulli"},
     restricted_exploration : BOOLEAN,
     d_tracking : BOOLEAN,
     use_adahedge : BOOLEAN]
\* The explorer __main__ builds: CGE(..., restricted_exploration=True,
\* dist_type="Gaussian") with the defaults of the other arguments.
MainConfig ==
    [ini_phase |-> 1, dist_type |-> "Gaussian", restricted_exploration |-> TRUE,
     d_tracking |-> TRUE, use_adahedge |-> TRUE]

(***************************************************************************)
(* Points scipy.optimize.minimize can return                               *)
(***************************************************************************)
Uniform == [i \in 1..n_arms |-> Rat(1, n_arms)]
Tilt(a) == [i \in 1..n_arms |-> IF i = a THEN Rat(n_arms + 1, 2 * n_arms)
                                          ELSE Rat(1, 2 * n_arms)]
Allocations == {Tilt(a) : a \in 1..n_arms}
\* minimize gives back a point also when it found none that is feasible.
MinimizePoints == Allocations \cup {Zeros(n_arms)}

(***************************************************************************)
(* project_on_feasible                                                     *)
(***************************************************************************)
\* What the call of minimize inside project_on_feasible can do.
ProjectOutcomes ==
    {[raises |-> TRUE, x |-> None]} \cup {[raises |-> FALSE, x |-> p] : p \in MinimizePoints}

\* project_on_feasible, given what its call of minimize did.  A ValueError is
\* swallowed and x is then unbound at the sum test; `raise "..."` of a string is
\* itself a TypeError.
project_on_feasible(m) ==
    IF m.raises THEN [exc |-> "UnboundLocalError", x |-> None]
    ELSE IF RLt(FeasTol, RAbs(RSub(RSum(m.x), R(1)))) THEN [exc |-> "TypeError", x |-> None]
    ELSE [exc |-> "none", x |-> m.x]

(***************************************************************************)
(* Explorer and CGE                                                        *)
(***************************************************************************)
\* Explorer.__init__: the fields of a new explorer.  self.constraints is the
\* caller's array itself (a reference into the heap), not a copy.
ExplorerInit(cfg, learner) ==
    [ini_phase |-> IF cfg.dist_type = "Bernoulli" THEN BernoulliIniPhase ELSE cfg.ini_phase,
     dist_type |-> cfg.dist_type,
     restricted_exploration |-> cfg.restricted_exploration,
     d_tracking |-> cfg.d_tracking,
     cumulative_weights |-> Zeros(n_arms),
     t |-> 0,
     neighbors |-> <<>>,
     means |-> Zeros(n_arms),
     constraints |-> "A_init",
     n_pulls |-> [i \in 1..n_arms |-> 0],
     gram_mat |-> [i \in 1..n_arms |-> [j \in 1..n_arms |-> IF i = j THEN 1 ELSE 0]],
     ada |-> learner]

\* The learners CGE.__init__ can build: AdaGrad (its first weights are a
\* projection, which may raise) when use_adahedge, else OnlineGradientDescent.
Learners(cfg) ==
    IF cfg.use_adahedge
    THEN {[exc |-> project_on_feasible(m).exc,
           ada |-> [kind |-> "AdaGrad", t |-> 0, w |-> project_on_feasible(m).x]] :
                m \in ProjectOutcomes}
    ELSE {[exc |-> "none",
           ada |-> [kind |-> "OnlineGradientDescent", t |-> 0, w |-> Uniform]]}

\* np.argmin: the first index (from 0) of a least entry.
ArgMin(v) == (CHOOSE i \in 1..Len(v) :
                /\ \A j \in 1..Len(v) : RLeq(v[i], v[j])
                /\ \A j \in 1..(i - 1) : RLt(v[i], v[j])) - 1

\* sqrt to one decimal (the floats of the source, at a precision the integers hold).
Sqrt(k) == <<CHOOSE r \in 0..(10 * k + 1) : r * r <= 100 * k /\ 100 * k < (r + 1) * (r + 1), 10>>

\* Explorer.tracking: the arm, and cumulative_weights afterwards.
tracking(e, allocation) ==
    IF e.d_tracking
    THEN [arm |-> ArgMin([i \in 1..n_arms |->
                            RSub(R(e.n_pulls[i]), RMul(R(e.t), allocation[i]))]),
          cumulative_weights |-> e.cumulative_weights]
    ELSE LET eps == RDiv(R(1), RMul(R(2), Sqrt(e.t + n_arms * n_arms)))
             eps_allocation == [i \in 1..n_arms |-> RAdd(allocation[i], eps)]
             normed == [i \in 1..n_arms |-> RDiv(eps_allocation[i], RSum(eps_allocation))]
             cw == [i \in 1..n_arms |-> RAdd(e.cumulative_weights[i], normed[i])]
         IN  [arm |-> ArgMin([i \in 1..n_arms |-> RSub(R(e.n_pulls[i]), cw[i])]),
              cumulative_weights |-> cw]

\* n_pulls < sqrt(t) - n_arms / 2, entrywise (both sides of 2*n_pulls + n_arms
\* < 2*sqrt(t) are positive, so it is compared squared).
not_saturated(e) ==
    [i \in 1..n_arms |->
        (2 * e.n_pulls[i] + n_arms) * (2 * e.n_pulls[i] + n_arms) < 4 * e.t]

\* best_response over a neighbour list: np.min of an empty list is a ValueError;
\* bernoulli_projection calls gaussian_projection without A and b, a TypeError;
\* otherwise the Gaussian projections return.
best_response(neighbors, dist_type) ==
    IF neighbors = <<>> THEN "ValueError"
    ELSE IF dist_type = "Bernoulli" THEN "TypeError"
    ELSE "none"

\* lr * loss of OnlineGradientDescent.update: a step against one arm.
StepVectors == {[i \in 1..n_arms |-> IF i = a THEN Rat(1, 4) ELSE R(0)] : a \in 1..n_arms}

\* self.ada.update(loss): the learner afterwards, what it raised, and the value
\* now held by the array that get_weights() handed out before the update.
\* AdaGrad rebinds self.w to the (clipped) point minimize returns; the points
\* lie inside (1e-12, 1 - 1e-12), where np.clip changes nothing.
\* OnlineGradientDescent steps self.allocation in place, then rebinds it to its
\* projection on the simplex.
LearnerUpdate(ada) ==
    IF ada.kind = "AdaGrad"
    THEN {[ada |-> [ada EXCEPT !.t = @ + 1, !.w = p], exc |-> "none", handed |-> ada.w] :
            p \in Allocations}
    ELSE {LET stepped == VecSub(ada.w, sm[1])
              pr == project_on_feasible(sm[2])
          IN  [ada |-> [ada EXCEPT !.t = @ + 1,
                                   !.w = IF pr.exc = "none" THEN pr.x ELSE stepped],
               exc |-> pr.exc, handed |-> stepped] :
            sm \in StepVectors \X ProjectOutcomes}

\* How one call of act() ends: the explorer afterwards, the exception it raises
\* ("none": it returns ret) and the call that raised it, the cache key of the
\* round's policy (None before it is known), the neighbour lists handed to
\* best_response (by act, then by the stopping test), and the value of w that
\* act handed to best_response (None before that call).
Outcome(e, exc, at, key, ret, used) ==
    [explorer |-> e, exc |-> exc, at |-> at, key |-> key, ret |-> ret, used |-> used,
     w |-> None]

\* Lines 701-708 of CGE.act: the arm of the round, and cumulative_weights
\* afterwards (tracking is not called when the least-pulled arm is forced).
ChooseArm(e, allocation) ==
    IF (\E i \in 1..n_arms : not_saturated(e)[i]) /\ e.d_tracking
    THEN [arm |-> ArgMin([i \in 1..n_arms |-> R(e.n_pulls[i])]),
          cumulative_weights |-> e.cumulative_weights]
    ELSE tracking(e, allocation)

\* CGE.act from the call of self.ada.update on (lines 699-720).  The stopping
\* test's value rests on logarithms of the source's floats: either flag.
ActDecide(e, optimal_policy, neighbors, allocation0, upd) ==
    LET e2 == [e EXCEPT !.ada = upd.ada]
        allocation == IF e.restricted_exploration THEN allocation0 ELSE upd.handed
        arm == ChooseArm(e2, allocation).arm
        e3 == [e2 EXCEPT !.cumulative_weights = ChooseArm(e2, allocation).cumulative_weights]
        misc == [allocation |-> allocation, optimal_policy |-> optimal_policy]
    IN  IF upd.exc /= "none"
        THEN {Outcome(e2, upd.exc, "ada.update", optimal_policy, None, <<neighbors>>)}
        ELSE IF optimal_policy \notin DOMAIN e3.neighbors
        THEN {Outcome(e3, "KeyError", "stopping_criterion", optimal_policy, None,
                      <<neighbors>>)}
        ELSE {Outcome(e3, "none", "none", optimal_policy,
                      <<arm, stop, optimal_policy, misc>>,
                      <<neighbors, e3.neighbors[optimal_policy]>>) : stop \in BOOLEAN}

\* CacheNeighbors computing the list anew in every round: C10_Cache tells the
\* two apart.
CacheNeighborsAnew(cache, hash_tuple, aux) ==
    [k \in DOMAIN cache \cup {hash_tuple} |->
        IF k = hash_tuple THEN compute_neighbors(hash_tuple, aux.A, aux.b, aux.slack)
        ELSE cache[k]]

\* The neighbour cache after the lookup of lines 641-648.
CacheNeighbors(cache, hash_tuple, aux) ==
    IF hash_tuple \in DOMAIN cache THEN cache
    ELSE cache @@ (hash_tuple :> compute_neighbors(hash_tuple, aux.A, aux.b, aux.slack))

\* CGE.act after get_policy returned gp (lines 634-699).  Without success the
\* body of the `if` is skipped and act falls off its end: it returns None.
ActAfterPolicy(e, gp) ==
    IF ~gp.results.success THEN {Outcome(e, "none", "none", None, None, <<>>)}
    ELSE
    LET optimal_policy == gp.results.x
        e1 == [e EXCEPT !.neighbors = CacheNeighbors(@, optimal_policy, gp.aux)]
        neighbors == e1.neighbors[optimal_policy]
        projections == IF e.restricted_exploration
                       THEN {project_on_feasible(m) : m \in ProjectOutcomes}
                       ELSE {[exc |-> "none", x |-> e.ada.w]}
        br == best_response(neighbors, e.dist_type)
    IN  UNION {IF pr.exc /= "none"
               THEN {Outcome(e1, pr.exc, "project_on_feasible", optimal_policy, None, <<>>)}
               ELSE IF br /= "none"
               THEN {[Outcome(e1, br, "best_response", optimal_policy, None, <<neighbors>>)
                        EXCEPT !.w = pr.x]}
               ELSE {[o EXCEPT !.w = pr.x] :
                        o \in UNION {ActDecide(e1, optimal_policy, neighbors, pr.x, upd) :
                                        upd \in LearnerUpdate(e1.ada)}} :
                    pr \in projections}

\* InWarmup with the number of arms forgotten: C1_Warmup tells the two apart.
InWarmupOneArm(e) == e.t < e.ini_phase

\* `if self.t < self.n_arms * self.ini_phase` (line 624).
InWarmup(e) == e.t < n_arms * e.ini_phase

\* The values f_t * sqrt(w_t_norm) can take (f_t > 1 and w_t_norm > 0 are
\* floating-point expressions in log and sqrt): positive numbers.
Shrinks == {Rat(1, 2), R(1), R(2)}
\* self.constraints - f_t*np.sqrt(w_t_norm): the estimate with s taken off
\* every entry, the A that act() gives to project_on_feasible and to
\* best_response (lines 655 and 665).
ShrunkMatrix(Cons, s) ==
    [r \in 1..Len(Cons) |-> [j \in 1..Len(Cons[r]) |-> RSub(Cons[r][j], s)]]
\* The A that act() gives to get_policy (line 633): self.constraints.
PolicyMatrix(Cons) == Cons

\* CGE.act: every way one call can end.  A ValueError of linprog is swallowed
\* by get_policy, whose next line then reads the unbound `results`.
act(e, Cons) ==
    IF InWarmup(e)
    THEN {Outcome(e, "none", "none", None, <<e.t % n_arms, FALSE, None, None>>, <<>>)}
    ELSE {Outcome(e, "UnboundLocalError", "get_policy", None, None, <<>>)}
         \cup UNION {ActAfterPolicy(e, get_policy(r, PolicyMatrix(Cons), b)) :
                        r \in LinprogResults(e.means, StackA(PolicyMatrix(Cons)), StackB(b))}

\* Explorer.update keeping the last reward instead of the average:
\* C16_Update tells the two apart.
UpdateExplorerLast(e, arm, reward) ==
    [e EXCEPT !.t = @ + 1,
              !.n_pulls[arm + 1] = @ + 1,
              !.means[arm + 1] = reward,
              !.gram_mat[arm + 1][arm + 1] = @ + 1]

\* Explorer.update with the Gram accumulator left alone: C21_Counts tells the
\* two apart.
UpdateExplorerNoGram(e, arm, reward) ==
    LET n == e.n_pulls[arm + 1] + 1
    IN  [e EXCEPT !.t = @ + 1,
                  !.n_pulls[arm + 1] = n,
                  !.means[arm + 1] = RAdd(@, RMul(Rat(1, n), RSub(reward, @)))]

\* Explorer.update on the explorer record and on the array it references.
UpdateExplorer(e, arm, reward) ==
    LET n == e.n_pulls[arm + 1] + 1
        m == [e.means EXCEPT ![arm + 1] =
                RAdd(@, RMul(Rat(1, n), RSub(reward, @)))]
        clip(v) == IF RLt(v, Lower) THEN Lower ELSE IF RLt(Upper, v) THEN Upper ELSE v
    IN  [e EXCEPT !.t = @ + 1,
                  !.n_pulls[arm + 1] = n,
                  !.means = IF e.dist_type = "Bernoulli"
                            THEN [i \in 1..n_arms |-> clip(m[i])] ELSE m,
                  !.gram_mat[arm + 1][arm + 1] = @ + 1]
UpdateConstraints(M, e, arm, cost) ==
    LET n == e.n_pulls[arm + 1] + 1
    IN  [r \in 1..Len(M) |->
            [M[r] EXCEPT ![arm + 1] =
                RDiv(RAdd(RMul(R(n - 1), @), cost[r]), R(n))]]

(***************************************************************************)
(* State                                                                   *)
(***************************************************************************)
VARIABLES
    pc,             \* where __main__ / run_exploration_experiment stands
    iter,           \* the trial of __main__ (from 1)
    config,         \* the arguments the explorer is constructed with
    heap,           \* the numpy arrays that are shared by reference: A_init
    A_sampled,      \* the value bandit.sample_constraint(A) returned for A_init
    bandit_rs,      \* bandit.random_state
    np_random,      \* the process-wide np.random
    explorer,       \* the CGE instance (None before the first is built)
    t, done, policy, arm, log,          \* locals of run_exploration_experiment
    policy_list, done_list, arm_list,
    constraint_violation, simple_regret,
    reward, cost,
    called,         \* how the last call of explorer.act() in this run ended
    raised,         \* the exception that ended the program ("none": none did)
    twin,           \* a second run with the same seeds: its streams and observations
    frame           \* the frame of a function called on its own (None in __main__)

vars == <<pc, iter, config, heap, A_sampled, bandit_rs, np_random, explorer,
          t, done, policy, arm, log, policy_list, done_list, arm_list,
          constraint_violation, simple_regret, reward, cost, called, raised, twin,
          frame>>

\* The variables of __main__ and run_exploration_experiment.
main_vars == <<pc, iter, config, heap, A_sampled, bandit_rs, np_random, explorer,
               t, done, policy, arm, log, policy_list, done_list, arm_list,
               constraint_violation, simple_regret, reward, cost, called, raised, twin>>

run_locals_but_t == <<done, policy, arm, log, policy_list, done_list, arm_list,
                      constraint_violation, simple_regret>>
run_locals == <<t, run_locals_but_t>>

\* self.constraints, read through the reference.
Constraints == heap[explorer.constraints]

\* The cap of `while not done and t < 100000`, scaled down (see MaxAdaptive).
RoundCap == n_arms * explorer.ini_phase + MaxAdaptive

\* The optimal policy of the true instance (line 918-919).
optimal_policy ==
    (CHOOSE r \in LinprogResults(mu, StackA(A), StackB(b)) : r.success).x

(***************************************************************************)
(* __main__: the bandit is built with its seed and A_init is sampled; the  *)
(* twin run does the same; after sampling its A_init, its process-wide     *)
(* stream stands where a start from a position in G2 leaves it.            *)
(***************************************************************************)
InitWith(cfgs, G2) ==
    \E g \in Positions, g2 \in G2 :
        /\ pc = "main"
        /\ iter = 1
        /\ config \in cfgs
        /\ bandit_rs = RandomState(seed)
        /\ A_sampled = sample_constraint(A, g).value
        /\ heap = [A_init |-> sample_constraint(A, g).value]
        /\ np_random = sample_constraint(A, g).pos
        /\ explorer = None
        /\ t = 0 /\ done = FALSE /\ policy = None /\ arm = None /\ log = None
        /\ policy_list = <<>> /\ done_list = <<>> /\ arm_list = <<>>
        /\ constraint_violation = 0 /\ simple_regret = <<>>
        /\ reward = None /\ cost = None
        /\ called = None
        /\ raised = "none"
        /\ twin = [bandit_rs |-> RandomState(seed),
                   np_random |-> sample_constraint(A, g2).pos,
                   reward |-> None, cost |-> None]
        /\ frame = None

\* explorer = CGE(...) (lines 1168-1176).  With restricted exploration the
\* constructor solves one LP, whose ValueError leaves `results` unbound.
Construct ==
    /\ pc = "main"
    /\ \E l \in Learners(config), lp \in {"returns"} \cup
                    (IF config.restricted_exploration THEN {"ValueError"} ELSE {}) :
          IF lp = "ValueError" \/ l.exc /= "none"
          THEN /\ pc' = "crashed"
               /\ raised' = (IF lp = "ValueError" THEN "UnboundLocalError" ELSE l.exc)
               /\ UNCHANGED explorer
          ELSE /\ pc' = "run"
               /\ explorer' = ExplorerInit(config, l.ada)
               /\ UNCHANGED raised
    /\ UNCHANGED <<iter, config, heap, A_sampled, bandit_rs, np_random, run_locals,
                   reward, cost, called, twin, frame>>

\* run_exploration_experiment up to its loop (lines 918-929), in a new frame.
RunStart ==
    /\ pc = "run"
    /\ pc' = "loop"
    /\ t' = 0 /\ done' = FALSE
    /\ policy' = None /\ arm' = None /\ log' = None
    /\ policy_list' = <<>> /\ done_list' = <<>> /\ arm_list' = <<>>
    /\ constraint_violation' = 0 /\ simple_regret' = <<>>
    /\ reward' = None /\ cost' = None
    /\ called' = None
    /\ UNCHANGED <<iter, config, heap, A_sampled, bandit_rs, np_random, explorer,
                   raised, twin, frame>>

\* LoopCond without the stop flag: C6_Phases tells the two apart.
LoopCondNoStop == t < RoundCap

\* LoopCond with the cap off by one: C7_Terminates tells the two apart.
LoopCondOneMore == ~done /\ t <= RoundCap

\* `while not done and t < 100000`
LoopCond == ~done /\ t < RoundCap

\* Lines 947-952: the regret and the violations of the round's policy.
Report(pol) ==
    /\ simple_regret' = IF pol = None THEN simple_regret
                        ELSE Append(simple_regret, Dot(mu, VecSub(optimal_policy, pol)))
    /\ constraint_violation' =
            IF pol /= None /\ \E r \in 1..Len(A) : RLt(b[r], Dot(A[r], pol))
            THEN constraint_violation + 1 ELSE constraint_violation

\* act() returned its four values (lines 935-940, 947-954).
Decision(ret) ==
    /\ arm' = ret[1] /\ done' = ret[2] /\ policy' = ret[3] /\ log' = ret[4]
    /\ policy_list' = Append(policy_list, ret[3])
    /\ done_list' = Append(done_list, ret[2])
    /\ arm_list' = Append(arm_list, ret[1])
    /\ Report(ret[3])
    /\ pc' = "sample"
    /\ UNCHANGED raised

\* Fallback reading the first decision instead of the last: C3_NoOptimalPolicy
\* tells the two apart.
FallbackFirst(pl, al, dl) == [policy |-> pl[1], arm |-> al[1], done |-> dl[1]]

\* What `except TypeError` assigns (lines 943-945).
Fallback(pl, al, dl) == [policy |-> pl[Len(pl)], arm |-> al[Len(al)], done |-> dl[Len(dl)]]

\* The try block ended in a TypeError: act() raised one, or it returned None
\* and the unpacking did (lines 941-954).  With nothing in the lists yet the
\* handler's [-1] is an IndexError.
Handler ==
    /\ IF policy_list = <<>>
       THEN /\ pc' = "crashed" /\ raised' = "IndexError"
            /\ UNCHANGED <<policy, arm, done, simple_regret, constraint_violation>>
       ELSE /\ pc' = "sample" /\ UNCHANGED raised
            /\ policy' = Fallback(policy_list, arm_list, done_list).policy
            /\ arm' = Fallback(policy_list, arm_list, done_list).arm
            /\ done' = Fallback(policy_list, arm_list, done_list).done
            /\ Report(Fallback(policy_list, arm_list, done_list).policy)
    /\ UNCHANGED <<log, policy_list, done_list, arm_list>>

\* act() raised anything else: nothing catches it.
Escape(exc) ==
    /\ raised' = exc
    /\ pc' = "crashed"
    /\ UNCHANGED run_locals_but_t

\* One pass of the loop body up to the observation (lines 931-954).
Round ==
    /\ pc = "loop" /\ LoopCond
    /\ t' = t + 1
    /\ \E o \in act(explorer, Constraints) :
        /\ explorer' = o.explorer
        /\ called' = [exc |-> o.exc, at |-> o.at, key |-> o.key, ret |-> o.ret,
                      used |-> o.used, w |-> o.w]
        /\ IF o.exc = "none" /\ o.ret /= None THEN Decision(o.ret)
           ELSE IF o.exc \in {"none", "TypeError"} THEN Handler
           ELSE Escape(o.exc)
    /\ UNCHANGED <<iter, config, heap, A_sampled, bandit_rs, np_random,
                   reward, cost, twin, frame>>

\* Lines 956-961: the reward from the bandit's stream, the constraint sample
\* from np.random, then explorer.update, which writes the played arm's column
\* into the array self.constraints refers to.  The twin run observes the same
\* arm from its own streams.
SampleUpdate ==
    /\ pc = "sample"
    /\ LET sm == sample_mean(bandit_rs)
           sc == sample_constraint(A, np_random)
           sm2 == sample_mean(twin.bandit_rs)
           sc2 == sample_constraint(A, twin.np_random)
       IN  /\ reward' = sm.value[arm + 1]
           /\ cost' = Column(sc.value, arm + 1)
           /\ bandit_rs' = sm.pos
           /\ np_random' = sc.pos
           /\ twin' = [twin EXCEPT !.bandit_rs = sm2.pos, !.np_random = sc2.pos,
                                   !.reward = sm2.value[arm + 1],
                                   !.cost = Column(sc2.value, arm + 1)]
           /\ explorer' = UpdateExplorer(explorer, arm, sm.value[arm + 1])
           /\ heap' = [heap EXCEPT ![explorer.constraints] =
                          UpdateConstraints(@, explorer, arm, Column(sc.value, arm + 1))]
    /\ pc' = "loop"
    /\ UNCHANGED <<iter, config, A_sampled, run_locals, called, raised, frame>>

\* The loop ends and the experiment returns t and the last policy (964-968).
LoopExit ==
    /\ pc = "loop" /\ ~LoopCond
    /\ pc' = "returned"
    /\ UNCHANGED <<iter, config, heap, A_sampled, bandit_rs, np_random, explorer,
                   run_locals, reward, cost, called, raised, twin, frame>>

\* The next trial of `for iter in range(iteration)` (line 1166).
NextTrial ==
    /\ pc = "returned" /\ iter < MaxIter
    /\ iter' = iter + 1
    /\ pc' = "main"
    /\ UNCHANGED <<config, heap, A_sampled, bandit_rs, np_random, explorer,
                   run_locals, reward, cost, called, raised, twin, frame>>

\* One run of run_exploration_experiment with an explorer of any configuration.
Init == InitWith(Configs, {RandomState(seed)})
Next == Construct \/ RunStart \/ Round \/ SampleUpdate \/ LoopExit
Spec == Init /\ [][Next]_vars

\* __main__: its explorer, trial after trial.
InitMain == InitWith({MainConfig}, Positions)
NextMain == Next \/ NextTrial
SpecMain == InitMain /\ [][NextMain]_vars

(***************************************************************************)
(* Functions called on their own: no program runs, the frame holds the     *)
(* arguments and locals of the one call.                                   *)
(***************************************************************************)
Idle ==
    /\ pc = "call" /\ iter = 0 /\ config = None /\ heap = None /\ A_sampled = None
    /\ bandit_rs = 0 /\ np_random = 0 /\ explorer = None
    /\ t = 0 /\ done = FALSE /\ policy = None /\ arm = None /\ log = None
    /\ policy_list = <<>> /\ done_list = <<>> /\ arm_list = <<>>
    /\ constraint_violation = 0 /\ simple_regret = <<>>
    /\ reward = None /\ cost = None /\ called = None /\ raised = "none"
    /\ twin = None

\* Half-planes a.x <= b of the plane: those get_policy stacks for two arms
\* (-eye, simplex, -simplex), the instance's constraint, and three more.
HalfPlanes ==
    << [a |-> <<R(-1), R(0)>>, b |-> R(0)],
       [a |-> <<R(0), R(-1)>>, b |-> R(0)],
       [a |-> <<R(1), R(1)>>, b |-> R(1)],
       [a |-> <<R(-1), R(-1)>>, b |-> R(-1)],
       [a |-> A[1], b |-> b[1]],
       [a |-> <<R(1), R(0)>>, b |-> R(1)],
       [a |-> <<R(0), R(1)>>, b |-> R(1)],
       [a |-> <<R(1), R(1)>>, b |-> <<3, 2>>] >>

\* The calls compute_neighbors(vertex, A, b, slack) with A x <= b a system of
\* some of the half-planes, vertex one of its vertices and slack = b - A vertex.
NeighborCalls ==
    UNION {LET idx == SelectIdx([i \in 1..Len(HalfPlanes) |-> i \in S], 1, Len(HalfPlanes))
               As == [k \in 1..Len(idx) |-> HalfPlanes[idx[k]].a]
               bs == [k \in 1..Len(idx) |-> HalfPlanes[idx[k]].b]
           IN  {[fn |-> "compute_neighbors", vertex |-> v, A |-> As, b |-> bs,
                 slack |-> VecSub(bs, MatVec(As, v)),
                 returned |-> FALSE, neighbors |-> <<>>] : v \in Vertices(As, bs)} :
                S \in SUBSET (1..Len(HalfPlanes))}

InitNeighbors == Idle /\ frame \in NeighborCalls

\* The call runs to its return statement (line 169).
ComputeNeighbors ==
    /\ pc = "call" /\ frame.fn = "compute_neighbors" /\ ~frame.returned
    /\ frame' = [frame EXCEPT !.returned = TRUE,
                              !.neighbors = compute_neighbors(frame.vertex, frame.A,
                                                              frame.b, frame.slack)]
    /\ UNCHANGED main_vars

NextNeighbors == ComputeNeighbors
SpecNeighbors == InitNeighbors /\ [][NextNeighbors]_vars

(***************************************************************************)
(* solve_game and solve_game_lb                                            *)
(***************************************************************************)
\* A tolerance 10^-k, held as <<1, k>>; x is greater than y.
Tol(k) == <<1, k>>
TolGt(x, y) == x[2] < y[2]
\* tol_sweep after lines 341-346: the given tol first when it is above 1e-16,
\* else None (scipy tunes the tolerance itself).
tol_sweep(tol) ==
    LET sweep == <<Tol(16), Tol(12), Tol(6), Tol(4)>>
    IN  IF tol /= None /\ TolGt(tol, sweep[1]) THEN <<tol>> \o sweep ELSE <<None>> \o sweep

\* np.random.uniform(0.3, 0.6, size) divided by its sum.
StartPoints == {<<Rat(1, 2), Rat(1, 2)>>, <<Rat(2, 5), Rat(3, 5)>>, <<Rat(3, 5), Rat(2, 5)>>}
\* -res.fun, the value of the game at the point minimize returns.
GameValues == {R(0), R(1)}
\* What minimize(game_objective, x0, ...) can return.
MinimizeResults ==
    {[success |-> sc, x |-> p, fun |-> RNeg(v)] :
        sc \in BOOLEAN, p \in MinimizePoints, v \in GameValues}

\* The calls of solve_game / solve_game_lb, at the line after `done = False`
\* (or, with allocation_A given, its twin in the else branch).
GameCalls ==
    {[fn |-> f, dist_type |-> d, neighbors |-> nb, simplex |-> sx,
      x0 |-> x, tol |-> tl, tol_sweep |-> tol_sweep(tl), count |-> 0, done |-> FALSE,
      res |-> None, at |-> IF x = None THEN "while" ELSE "direct",
      ret |-> None, exc |-> "none"] :
        f \in {"solve_game", "solve_game_lb"}, d \in {"Gaussian", "Bernoulli"},
        nb \in {<<>>, <<Tilt(1)>>}, sx \in BOOLEAN,
        x \in {None, Uniform}, tl \in {None, Tol(20), Tol(3)}}

InitGame == Idle /\ frame \in GameCalls

\* What game_objective raises when minimize evaluates it: best_response (and
\* best_response_lb, which fails in the same two ways) on the call's neighbours.
game_objective(f) == best_response(f.neighbors, f.dist_type)

\* One pass of `while count < len(tol_sweep) and not done` (lines 355-363 and
\* 375-387; 1060-1068 and 1080-1088).
Rung ==
    /\ pc = "call" /\ frame.fn \in {"solve_game", "solve_game_lb"}
    /\ frame.at = "while" /\ frame.count < Len(frame.tol_sweep) /\ ~frame.done
    /\ \E x0 \in StartPoints, m \in ProjectOutcomes, res \in MinimizeResults :
        LET tol == frame.tol_sweep[frame.count + 1]
            pr == IF frame.simplex THEN [exc |-> "none", x |-> x0] ELSE project_on_feasible(m)
        IN  frame' =
                IF pr.exc /= "none"
                THEN [frame EXCEPT !.tol = tol, !.at = "raised", !.exc = pr.exc]
                ELSE IF game_objective(frame) /= "none"
                THEN [frame EXCEPT !.tol = tol, !.x0 = pr.x, !.at = "raised",
                                   !.exc = game_objective(frame)]
                ELSE [frame EXCEPT !.tol = tol, !.x0 = pr.x, !.res = res,
                                   !.done = res.success, !.count = @ + 1]
    /\ UNCHANGED main_vars

\* The single call of minimize when x0 was supplied (lines 365-367, 389-391).
Direct ==
    /\ pc = "call" /\ frame.fn \in {"solve_game", "solve_game_lb"}
    /\ frame.at = "direct"
    /\ \E res \in MinimizeResults :
        frame' = IF game_objective(frame) /= "none"
                 THEN [frame EXCEPT !.at = "raised", !.exc = game_objective(frame)]
                 ELSE [frame EXCEPT !.res = res, !.at = "end"]
    /\ UNCHANGED main_vars

\* The end of the function.  solve_game returns under `if res["success"] ==
\* True` and otherwise falls off its end (lines 392-393); solve_game_lb raises
\* ValueError("Optimization failed") without success (lines 1093-1095).
GameEnd(f) ==
    IF f.res.success
    THEN [f EXCEPT !.at = "returned", !.ret = <<f.res.x, RNeg(f.res.fun)>>]
    ELSE IF f.fn = "solve_game" THEN [f EXCEPT !.at = "returned"]
    ELSE [f EXCEPT !.at = "raised", !.exc = "ValueError"]

\* The ladder is left (the loop condition fails) or the single call is over.
LadderEnd ==
    /\ pc = "call" /\ frame.fn \in {"solve_game", "solve_game_lb"}
    /\ \/ frame.at = "end"
       \/ frame.at = "while" /\ ~(frame.count < Len(frame.tol_sweep) /\ ~frame.done)
    /\ frame' = GameEnd(frame)
    /\ UNCHANGED main_vars

NextGame == Rung \/ Direct \/ LadderEnd
SpecGame == InitGame /\ [][NextGame]_vars

(***************************************************************************)
(* The arm choice of act() (lines 624-627, 701-708) followed by update(),  *)
(* round after round, for whatever allocation the learner hands out.       *)
(***************************************************************************)
\* The rounds played (the loop's 100000, scaled down).
MaxTrackRounds == 7
\* Explorers with the shortest warm-up, under either tracking rule.
TrackingConfigs ==
    {c \in Configs : /\ c.ini_phase = 1 /\ c.dist_type = "Gaussian"
                     /\ ~c.restricted_exploration /\ ~c.use_adahedge}
\* Vectors act() passes to tracking (line 708): the learner's weights or, with
\* OnlineGradientDescent, the array stepped in place by lr * loss (line 846),
\* which need not sum to one.
TrackAllocations == {Uniform, <<R(0), R(2)>>, <<R(2), R(0)>>}

InitTracking ==
    /\ Idle
    /\ \E c \in TrackingConfigs : \E l \in Learners(c) :
        frame = [fn |-> "act", self |-> ExplorerInit(c, l.ada), before |-> None,
                 allocation |-> None, arm |-> 0, acted |-> FALSE]

\* One round: the arm act() returns for the allocation, then update() with
\* the arm's mean reward.
TrackRound ==
    /\ pc = "call" /\ frame.fn = "act" /\ frame.self.t < MaxTrackRounds
    /\ \E allocation \in IF InWarmup(frame.self) THEN {None} ELSE TrackAllocations :
        LET e == frame.self
            choice == IF InWarmup(e)
                      THEN [arm |-> e.t % n_arms, cumulative_weights |-> e.cumulative_weights]
                      ELSE ChooseArm(e, allocation)
            e1 == [e EXCEPT !.cumulative_weights = choice.cumulative_weights]
        IN  frame' = [fn |-> "act", self |-> UpdateExplorer(e1, choice.arm, mu[choice.arm + 1]),
                      before |-> e, allocation |-> allocation, arm |-> choice.arm,
                      acted |-> TRUE]
    /\ UNCHANGED main_vars

NextTracking == TrackRound
SpecTracking == InitTracking /\ [][NextTracking]_vars

(***************************************************************************)
(* get_confidence_interval and binary_search, for one arm: two calls with  *)
(* the same mean and pull count and thresholds f_t[1] <= f_t[2].           *)
(***************************************************************************)
\* The points of the search grid (5000 in the source, scaled down).
GridSize == 9
\* The largest pull count of the calls.
MaxPulls == 2
\* The defaults of the parameters upper and lower (line 198).
DefaultUpper == 6
DefaultLower == -1

\* np.linspace(m, stop, GridSize)[i], i from 0.
linspace(m, stop, i) == RAdd(m, RMul(Rat(i, GridSize - 1), RSub(stop, m)))
\* The default divergence (line 212).
kl(m1, m2) == RDiv(RMul(RSub(m1, m2), RSub(m1, m2)), R(2))

\* The locals of binary_search at its `while` (lines 181-183).
SearchStart == [p |-> 0, q |-> GridSize, i |-> 0, x |-> None, loss |-> None, done |-> FALSE]

\* One call get_confidence_interval([mu], [pulls], f_t), at the first search.
IntervalCall(m, n, f) ==
    [mu |-> m, pulls |-> n, f_t |-> f, side |-> "ub", search |-> SearchStart,
     ub |-> None, lb |-> None, returned |-> FALSE]

\* Means inside and outside [lower, upper], and values of f_t = log t.
IntervalMeans == {R(-2), R(0), Rat(3, 2), R(7)}
IntervalThresholds == {R(0), Rat(1, 2), R(2), R(8)}

InitInterval ==
    /\ Idle
    /\ \E m \in IntervalMeans, n \in 1..MaxPulls, f1 \in IntervalThresholds,
          f2 \in IntervalThresholds :
        /\ RLeq(f1, f2)
        /\ frame = [fn |-> "get_confidence_interval", upper |-> R(DefaultUpper),
                    lower |-> R(DefaultLower),
                    call |-> <<IntervalCall(m, n, f1), IntervalCall(m, n, f2)>>]

\* The interval argument of the search a call is in (lines 214 and 218).
Stop(c) == IF c.side = "ub" THEN frame.upper ELSE frame.lower

\* One pass of the `while not done` loop of binary_search (lines 185-193).
Bisect(c, stop) ==
    LET i == (c.search.p + c.search.q) \div 2
        x == linspace(c.mu, stop, i)
        loss == kl(c.mu, x)
        below == RLt(loss, RDiv(c.f_t, R(c.pulls)))
        p == IF below THEN i ELSE c.search.p
        q == IF below THEN c.search.q ELSE i
    IN  [p |-> p, q |-> q, i |-> i, x |-> x, loss |-> loss, done |-> p + 1 >= q]

BisectStep ==
    /\ pc = "call" /\ frame.fn = "get_confidence_interval"
    /\ \E k \in 1..2 :
        /\ ~frame.call[k].returned /\ ~frame.call[k].search.done
        /\ frame' = [frame EXCEPT !.call[k].search = Bisect(frame.call[k], Stop(frame.call[k]))]
    /\ UNCHANGED main_vars

\* binary_search returns x (line 195): the upper bound, then the lower bound
\* and the return of get_confidence_interval (line 222).
SearchReturn ==
    /\ pc = "call" /\ frame.fn = "get_confidence_interval"
    /\ \E k \in 1..2 :
        /\ ~frame.call[k].returned /\ frame.call[k].search.done
        /\ frame' = IF frame.call[k].side = "ub"
                    THEN [frame EXCEPT !.call[k].ub = frame.call[k].search.x,
                                       !.call[k].side = "lb",
                                       !.call[k].search = SearchStart]
                    ELSE [frame EXCEPT !.call[k].lb = frame.call[k].search.x,
                                       !.call[k].returned = TRUE]
    /\ UNCHANGED main_vars

NextInterval == BisectStep \/ SearchReturn
SpecInterval == InitInterval /\ [][NextInterval]_vars

(***************************************************************************)
(* Properties                                                              *)
(***************************************************************************)
\* A call of act() has ended in the current pass of the loop body.
ActCalled == pc \in {"sample", "crashed"} /\ called /= None
\* The step is a pass of the loop body (a call of act()).
RoundStep == pc = "loop" /\ t' = t + 1
\* The last call of act() returned its four values.
Returned == called.exc = "none" /\ called.ret /= None
\* The last call of act() returned None: the LP did not succeed.
LPFailed == called.exc = "none" /\ called.ret = None
\* The warm-up answer of round index k.
WarmupAnswer(k) == <<k % n_arms, FALSE, None, None>>

WarmupLength ==
    IF config.dist_type = "Bernoulli" THEN BernoulliIniPhase ELSE config.ini_phase

C2_FourComponents ==
    ActCalled =>
        /\ Returned
        /\ Len(called.ret) = Len(WarmupAnswer(0))
        /\ (t > n_arms * explorer.ini_phase /\ called.key /= None)
                => called.ret[3] = called.key

\* C3: when the round's LP does not succeed, act() changes nothing of the
\* explorer (its fields, its learner, its cache, the constraint estimate it
\* refers to) and nothing is raised; the arm, stop flag and policy of the round
\* are those of the round before; and the round goes on with update() on that arm.
C3_NoOptimalPolicy ==
    [][/\ (RoundStep /\ called'.exc = "none" /\ called'.ret = None)
            => /\ explorer' = explorer /\ heap' = heap
               /\ pc' = "sample" /\ raised' = raised
               /\ arm' = arm /\ done' = done /\ policy' = policy
               /\ arm' = arm_list[Len(arm_list)]
               /\ done' = done_list[Len(done_list)]
               /\ policy' = policy_list[Len(policy_list)]
       /\ (pc = "sample" /\ LPFailed)
            => /\ pc' = "loop"
               /\ explorer'.t = explorer.t + 1
               /\ explorer'.n_pulls[arm + 1] = explorer.n_pulls[arm + 1] + 1
               /\ \A i \in 1..n_arms :
                    i /= arm + 1 => explorer'.n_pulls[i] = explorer.n_pulls[i]]_vars
\* An adaptive round whose LP failed, after a round that decided adaptively.
C3_Witness ==
    /\ pc = "sample" /\ LPFailed
    /\ policy /= None /\ policy = policy_list[Len(policy_list)]
    /\ arm = arm_list[Len(arm_list)]

\* C4: no round's failure ends the loop abnormally: whichever step fails, the
\* loop goes on to update() with the last decision.
C4_NeverAbnormal == ActCalled => pc = "sample"

\* C5: a failure of project_on_feasible is fatal: it is never a round in which
\* the loop goes on with the decision of the round before.
C5_ProjectionFatal ==
    (ActCalled /\ called.at = "project_on_feasible") => pc = "crashed"

\* The phase of a run: 0 warm-up, 1 adaptive, 2 stopped.
Phase ==
    IF done THEN 2 ELSE IF explorer.t < n_arms * explorer.ini_phase THEN 0 ELSE 1

\* C6: a run moves WARMUP -> ADAPTIVE -> STOPPED and never backwards; past the
\* warm-up no act() takes the warm-up branch; after stop = True there is no
\* further call of act(); a round that falls back to the decision before never
\* stops the run.
C6_Phases ==
    [][(pc \in {"loop", "sample"}) =>
        /\ Phase' >= Phase
        /\ (RoundStep /\ ~InWarmup(explorer) /\ called'.exc = "none" /\ called'.ret /= None)
                => called'.ret[3] /= None
        /\ done => (called' = called /\ t' = t /\ pc' \in {"loop", "returned"})
        /\ (RoundStep /\ (called'.exc /= "none" \/ called'.ret = None))
                => ~done']_vars
\* A run that went through the warm-up and adaptive rounds and was stopped.
C6_Witness ==
    /\ pc = "returned" /\ done
    /\ explorer.t > n_arms * explorer.ini_phase + 1
    /\ Len(done_list) < t

\* The loop's bookkeeping: no round past the cap, no stop flag before the last
\* decision; at the return, t is the number of update() calls and the loop was
\* stopped or has made exactly the cap's number of rounds.
LoopEnds ==
    /\ (pc \in {"loop", "sample", "returned"}) =>
            /\ t <= RoundCap
            /\ \A i \in 1..(Len(done_list) - 1) : ~done_list[i]
            /\ done => done_list[Len(done_list)]
    /\ (pc = "returned") =>
            /\ t = explorer.t
            /\ R(t) = RSum([i \in 1..n_arms |-> R(explorer.n_pulls[i])])
            /\ done \/ t = RoundCap

\* What is left of the loop: twice the rounds left, and the place in the body.
Rank ==
    2 * (RoundCap - t) + (IF pc = "sample" THEN 2 ELSE IF pc = "loop" THEN 1 ELSE 0)

\* C7: the loop terminates (every step of it lowers what is left of it, which
\* never falls below zero), at the first round whose stop flag is True and
\* otherwise after exactly the cap's number of rounds, and the t it returns is
\* the number of update() calls made.
C7_Terminates ==
    /\ []LoopEnds
    /\ [][(pc \in {"loop", "sample"}) => (Rank' < Rank /\ Rank' >= 0)]_vars
\* A run that was never stopped, with rounds that fell back, ended by the cap.
C7_Witness ==
    /\ pc = "returned" /\ ~done /\ t = RoundCap /\ explorer.t = t
    /\ Len(done_list) < t

\* C8: update() never changes the matrix the caller passed to the constructor,
\* so that every explorer built from it starts from the matrix as sampled.
C8_NotShared == (pc = "run") => Constraints = A_sampled

\* C9: two runs with the same seeds observe the same rewards and costs,
\* whatever the state of the process-wide generator.
C9_Deterministic == reward = twin.reward /\ cost = twin.cost

\* C10: a neighbour list stored under a key is neither recomputed, replaced
\* nor removed; a round whose optimal policy has a stored key hands the stored
\* list to the best response and to the stopping test, whatever has become of
\* the constraint estimate; and the stopping test finds its key.
C10_Cache ==
    [][(pc \in {"loop", "sample"}) =>
        /\ \A k \in DOMAIN explorer.neighbors :
                /\ k \in DOMAIN explorer'.neighbors
                /\ explorer'.neighbors[k] = explorer.neighbors[k]
        /\ RoundStep => called'.exc /= "KeyError"
        /\ (RoundStep /\ called'.key /= None) =>
                /\ called'.key \in DOMAIN explorer'.neighbors
                /\ \A i \in 1..Len(called'.used) :
                        called'.used[i] = explorer'.neighbors[called'.key]
        /\ (RoundStep /\ called'.exc = "none" /\ called'.ret /= None
                      /\ ~InWarmup(explorer))
                => Len(called'.used) = 2]_vars
\* A round decided with a stored list that is no longer the list of neighbours
\* under the constraint estimate of the round.
C10_Witness ==
    /\ pc = "sample" /\ Returned /\ called.key /= None
    /\ Len(called.used) = 2
    /\ called.used[1] /=
            compute_neighbors(called.key, StackA(Constraints), StackB(b),
                              VecSub(StackB(b), MatVec(StackA(Constraints), called.key)))

\* The learner variants of the source: the classes AdaHedge, AdaGrad and
\* OnlineGradientDescent.
Variants == {"AdaHedge", "AdaGrad", "OnlineGradientDescent"}

\* C12: the learner an explorer owns is the variant its configuration selects:
\* an explorer constructed with use_adahedge owns an AdaHedge learner, one
\* constructed without it an OnlineGradientDescent learner.
C12_SelectedVariant ==
    (explorer /= None) =>
        /\ explorer.ada.kind \in Variants
        /\ explorer.ada.kind =
                (IF config.use_adahedge THEN "AdaHedge" ELSE "OnlineGradientDescent")

\* The active constraints of a point x of the frame's system: those it
\* satisfies with equality.
ActiveAt(x) == {r \in 1..Len(frame.A) : Dot(frame.A[r], x) = frame.b[r]}

\* x solves a full-rank system of Len(x) of the frame's constraints, all but
\* one of them active at the frame's vertex and that one inactive there.
SwappedBasis(x) ==
    LET n == Len(x)
        act0 == {r \in 1..Len(frame.A) : frame.slack[r] = R(0)}
    IN  \E rows \in [1..n -> 1..Len(frame.A)] :
            /\ \E i \in 1..n :
                    /\ rows[i] \notin act0
                    /\ \A j \in 1..n : j /= i => rows[j] \in act0
                    /\ \E base \in SUBSET act0 :
                            /\ Cardinality(base) = n
                            /\ \A j \in 1..n : j /= i => rows[j] \in base
                            /\ \A j, k \in 1..n : (j < k /\ j /= i /\ k /= i) => rows[j] < rows[k]
            /\ FullRank([j \in 1..n |-> frame.A[rows[j]]])
            /\ x = LinSolve([j \in 1..n |-> frame.A[rows[j]]],
                            [j \in 1..n |-> frame.b[rows[j]]])

\* C13: for every vertex of A x <= b given with its slack vector, every point
\* compute_neighbors returns satisfies all constraints within 1e-5, solves a
\* full-rank basis obtained from a basis of active constraints by swapping in
\* exactly one inactive constraint, differs from the vertex in at least one
\* active constraint (so it is not the vertex), and occurs once in the list.
C13_Neighbors ==
    frame.returned =>
        \A k \in 1..Len(frame.neighbors) :
            LET x == frame.neighbors[k]
            IN  /\ \A r \in 1..Len(frame.A) :
                        RLeq(RSub(Dot(frame.A[r], x), frame.b[r]), FeasTol)
                /\ SwappedBasis(x)
                /\ ActiveAt(x) /= ActiveAt(frame.vertex)
                /\ x /= frame.vertex
                /\ \A j \in 1..Len(frame.neighbors) : j /= k => frame.neighbors[j] /= x
\* A vertex with more active constraints than dimensions (several bases lead
\* to each neighbour) was given and two neighbours were returned.
C13_Witness ==
    /\ frame.returned
    /\ Cardinality(ActiveAt(frame.vertex)) > Len(frame.vertex)
    /\ Len(frame.neighbors) >= 2

\* The step is an attempt of the ladder that reached the end of its pass.
Attempt == frame.at = "while" /\ frame'.count = frame.count + 1
\* The step leaves the ladder by its loop condition.
LeavesLadder == frame.at = "while" /\ frame'.at /= "while" /\ frame'.count = frame.count

\* C14: with no starting point supplied, the solver tries the tolerance rungs
\* in order, each from a newly drawn starting point that is an allocation,
\* makes no attempt after the first rung that reports success and returns that
\* rung's allocation and game value; when every rung fails it raises an error
\* instead of returning a result or nothing.
C14_Ladder ==
    [][/\ Attempt =>
            /\ ~frame.done
            /\ frame'.tol = frame.tol_sweep[frame'.count]
            /\ RSum(frame'.x0) = R(1)
            /\ \A i \in 1..Len(frame'.x0) : RLeq(R(0), frame'.x0[i])
            /\ frame'.done = frame'.res.success
       /\ (LeavesLadder /\ frame.exc = "none" /\ frame'.exc = "none" /\ frame.done) =>
            /\ frame'.at = "returned"
            /\ frame'.ret = <<frame.res.x, RNeg(frame.res.fun)>>
       /\ (LeavesLadder /\ frame.count = Len(frame.tol_sweep) /\ ~frame.done) =>
            /\ frame'.at = "raised" /\ frame'.exc /= "none"
            /\ frame'.ret = None]_vars

\* C15: in every adaptive round whose LP succeeded, if some arm's pull count
\* is below sqrt(t) - n_arms/2 the arm act() returns is a least-pulled arm, and
\* otherwise it is the tracking rule's choice, under D-tracking and under
\* cumulative tracking.
C15_Forced ==
    (frame.acted /\ ~InWarmup(frame.before)) =>
        IF \E i \in 1..n_arms : not_saturated(frame.before)[i]
        THEN \A j \in 1..n_arms :
                frame.before.n_pulls[frame.arm + 1] <= frame.before.n_pulls[j]
        ELSE frame.arm = tracking(frame.before, frame.allocation).arm

\* The step is a call of update(arm, reward, cost).
UpdateStep == pc = "sample" /\ pc' = "loop"
\* The counters after update(): the round counter and the arm's pull count
\* are one higher, no other pull count has changed.
UpdateCounts ==
    /\ explorer'.t = explorer.t + 1
    /\ \A i \in 1..n_arms :
            explorer'.n_pulls[i] = explorer.n_pulls[i] + (IF i = arm + 1 THEN 1 ELSE 0)
\* The constraint columns after update(): the arm's column is the average of
\* the costs observed for it (n' * new = n * old + cost), no other has changed.
UpdateColumns ==
    \A r \in 1..Len(Constraints), i \in 1..n_arms :
        IF i = arm + 1
        THEN RMul(R(explorer'.n_pulls[i]), heap'[explorer.constraints][r][i])
                = RAdd(RMul(R(explorer.n_pulls[i]), Constraints[r][i]), cost'[r])
        ELSE heap'[explorer.constraints][r][i] = Constraints[r][i]
\* The arm's mean estimate with one more reward averaged in.
AveragedIn(i) ==
    RDiv(RAdd(RMul(R(explorer.n_pulls[i]), explorer.means[i]), reward'),
         R(explorer.n_pulls[i] + 1))
\* np.clip(v, self.lower, self.upper) of the Bernoulli noise model.
Clipped(v) == IF RLt(v, Lower) THEN Lower ELSE IF RLt(Upper, v) THEN Upper ELSE v

\* C16 (as stated): update(arm, reward, cost) raises the round counter and the
\* arm's pull count by one, sets the arm's mean estimate and constraint column
\* to the running average of the rewards and costs observed for it, and leaves
\* the pull counts, mean estimates and constraint columns of every other arm
\* unchanged, for both noise models.
C16_UpdateAsStated ==
    [][UpdateStep =>
        /\ UpdateCounts
        /\ UpdateColumns
        /\ \A i \in 1..n_arms :
                explorer'.means[i] = IF i = arm + 1 THEN AveragedIn(i) ELSE explorer.means[i]]_vars

\* C16 (amended): as stated for the counters and the constraint columns under
\* both noise models and for the mean estimates under Gaussian noise; under
\* Bernoulli noise the arm's estimate has the reward averaged in and then every
\* arm's estimate is clipped into [1e-4, 1 - 1e-4].
C16_Update ==
    [][UpdateStep =>
        /\ UpdateCounts
        /\ UpdateColumns
        /\ \A i \in 1..n_arms :
                LET m == IF i = arm + 1 THEN AveragedIn(i) ELSE explorer.means[i]
                IN  explorer'.means[i] =
                        IF explorer.dist_type = "Bernoulli" THEN Clipped(m) ELSE m]_vars
\* A Bernoulli explorer after an update of an arm pulled before, with an
\* estimate at the upper clip and another arm's estimate inside the interval.
C16_Witness ==
    /\ pc = "loop" /\ explorer.t > 0 /\ explorer.dist_type = "Bernoulli"
    /\ explorer.n_pulls[arm + 1] >= 2
    /\ explorer.means[arm + 1] = Upper
    /\ \E i \in 1..n_arms : RLt(Lower, explorer.means[i]) /\ RLt(explorer.means[i], Upper)

\* C17: in every adaptive round the LP of the round is solved on the shrunk
\* constraint estimate (the estimate minus f_t*sqrt(w)), not on the raw
\* estimate, and this shrunk matrix is the one given to the best response.
C17_ShrunkPolicy ==
    (ActCalled /\ ~InWarmup(explorer) /\ called.key /= None) =>
        \A s \in Shrinks :
            /\ PolicyMatrix(Constraints) = ShrunkMatrix(Constraints, s)
            /\ PolicyMatrix(Constraints) /= Constraints

\* C18: with the Bernoulli noise model an adaptive round whose LP succeeded
\* (and whose projection of the allocation did not fail) completes: the best
\* response is evaluated against every neighbour and act() returns the round's
\* decision instead of raising.
C18_BernoulliRound ==
    (ActCalled /\ explorer.dist_type = "Bernoulli" /\ ~InWarmup(explorer)
               /\ called.key /= None /\ called.at /= "project_on_feasible") =>
        /\ called.exc = "none"
        /\ called.ret /= None
        /\ called.ret[3] = called.key

\* What is left of the searches of a call: the gaps q - p still to be closed.
Gap(c) ==
    IF c.returned THEN 0
    ELSE (c.search.q - c.search.p) + (IF c.side = "ub" THEN GridSize + 1 ELSE 0)

\* C19: for every mean, every pull count >= 1 and thresholds f1 <= f2, under
\* the (monotone) default divergence, the grid bisection terminates (every
\* step of a call lowers what is left of its searches, which never falls
\* below zero) and the two calls return ub(f1) <= ub(f2) and lb(f1) >= lb(f2).
C19_Monotone ==
    /\ []((frame.call[1].returned /\ frame.call[2].returned) =>
            /\ RLeq(frame.call[1].ub, frame.call[2].ub)
            /\ RLeq(frame.call[2].lb, frame.call[1].lb))
    /\ [][\A k \in 1..2 :
            frame'.call[k] /= frame.call[k] =>
                (Gap(frame'.call[k]) < Gap(frame.call[k]) /\ Gap(frame'.call[k]) >= 0)]_vars

\* C20: in every adaptive round whose LP succeeded and in which act() returns
\* a decision, the allocation reported in misc, which is the vector given to
\* the tracking rule, is value for value the vector that was handed to best
\* response earlier in the round, whatever the learner and with restricted
\* exploration on or off.
C20_SameAllocation ==
    (ActCalled /\ called.exc = "none" /\ called.ret /= None /\ called.w /= None) =>
        called.ret[4].allocation = called.w

\* The sum of a vector of integers.
RECURSIVE SumOf(_)
SumOf(v) == IF v = <<>> THEN 0 ELSE Head(v) + SumOf(Tail(v))

\* C21: after any sequence of update() calls on an explorer, the pull counts
\* are non-negative integers whose sum is the round counter t, and the Gram
\* accumulator is the identity plus the diagonal matrix of the pull counts:
\* 1 + n_pulls[i] on the diagonal, zero elsewhere.
C21_Counts ==
    explorer /= None =>
        /\ \A i \in 1..n_arms : explorer.n_pulls[i] \in Nat
        /\ SumOf(explorer.n_pulls) = explorer.t
        /\ \A i \in 1..n_arms, j \in 1..n_arms :
                explorer.gram_mat[i][j] = IF i = j THEN 1 + explorer.n_pulls[i] ELSE 0
\* update() has been called several times, more often for one arm than for
\* another.
C21_Witness ==
    /\ explorer /= None
    /\ explorer.t >= 3
    /\ \E i \in 1..n_arms, j \in 1..n_arms :
            explorer.n_pulls[i] >= 2 /\ explorer.n_pulls[j] < explorer.n_pulls[i]

====
